---- MODULE Spec2Model ----
(***************************************************************************)
(* Model of scripts/mitmproxy-addon.py: the GatewayInterceptor addon.      *)
(*                                                                         *)
(* State: the startup configuration read from the environment, the flows   *)
(* the proxy engine owns (each with its request, its response and its      *)
(* position in the request/response life cycle), and the addon's log.      *)
(* Strings are TLA+ strings; header collections are sequences of           *)
(* <<name, value>> fields, as in mitmproxy's multi-valued Headers.         *)
(***************************************************************************)
EXTENDS Integers, Sequences, FiniteSets, TLC

\* ------------------------------------------------------------------ bounds
\* Deepest subdomain nesting of the hosts tried ("x.x.d.com" has depth 2).
MaxLabels == 1

\* The flows the proxy engine handles concurrently.
FlowIds == {1, 2}

\* ------------------------------------------------------- string primitives
\* str.startswith
startswith(s, p) ==
    /\ Len(p) <= Len(s)
    /\ SubSeq(s, 1, Len(p)) = p

\* str.endswith
endswith(s, p) ==
    /\ Len(p) <= Len(s)
    /\ SubSeq(s, Len(s) - Len(p) + 1, Len(s)) = p

Digits == {"0", "1", "2", "3", "4", "5", "6", "7", "8", "9"}

DigitVal(c) ==
    CASE c = "0" -> 0 [] c = "1" -> 1 [] c = "2" -> 2 [] c = "3" -> 3
      [] c = "4" -> 4 [] c = "5" -> 5 [] c = "6" -> 6 [] c = "7" -> 7
      [] c = "8" -> 8 [] c = "9" -> 9

IsDigits(s) ==
    /\ Len(s) > 0
    /\ \A i \in 1..Len(s) : SubSeq(s, i, i) \in Digits

RECURSIVE StrToNat(_)
StrToNat(s) ==
    IF Len(s) = 0 THEN 0
    ELSE 10 * StrToNat(SubSeq(s, 1, Len(s) - 1)) + DigitVal(SubSeq(s, Len(s), Len(s)))

\* Positions of ":" in s.
Colons(s) == {i \in 1..Len(s) : SubSeq(s, i, i) = ":"}

\* mitmproxy.net.http.url.parse_authority(authority, check=False), for
\* authorities without brackets: "host" or "host:port" with a numeric port;
\* anything else is returned whole with no port (0 stands for None).
parse_authority(authority) ==
    IF Cardinality(Colons(authority)) = 1
    THEN LET i == CHOOSE j \in Colons(authority) : TRUE
             h == SubSeq(authority, 1, i - 1)
             p == SubSeq(authority, i + 1, Len(authority))
         IN IF Len(h) > 0 /\ IsDigits(p)
            THEN [host |-> h, port |-> StrToNat(p)]
            ELSE [host |-> authority, port |-> 0]
    ELSE [host |-> authority, port |-> 0]

\* mitmproxy.net.http.url.default_port (0 stands for None).
default_port(scheme) ==
    IF scheme = "http" THEN 80 ELSE IF scheme = "https" THEN 443 ELSE 0

\* mitmproxy.net.http.url.hostport: the port is left out when it is the
\* scheme's default.
hostport(scheme, host, port) ==
    IF default_port(scheme) = port THEN host ELSE host \o ":" \o ToString(port)

\* --------------------------------------------- mitmproxy Headers (multidict)
\* Header names compare case-insensitively: the folded form of each name
\* that occurs in the model.
Fold(name) ==
    CASE name = "Authorization" -> "authorization"
      [] name = "X-Intercepted-By" -> "x-intercepted-by"
      [] name = "X-Original-Host" -> "x-original-host"
      [] name = "Host" -> "host"
      [] name = "Accept" -> "accept"
      [] OTHER -> name

\* The value Python's None is modelled by: no header value equals it.
None == "<None>"

RECURSIVE get_all(_, _)
\* Headers.get_all: the values of the fields called name, in order.
get_all(headers, name) ==
    IF headers = << >> THEN << >>
    ELSE IF Fold(Head(headers)[1]) = Fold(name)
         THEN <<Head(headers)[2]>> \o get_all(Tail(headers), name)
         ELSE get_all(Tail(headers), name)

RECURSIVE join(_)
\* ", ".join(values)
join(values) ==
    IF Len(values) = 1 THEN values[1]
    ELSE values[1] \o ", " \o join(Tail(values))

\* name in headers
headers_contains(headers, name) == get_all(headers, name) # << >>

\* headers.get(name, default): multiple fields fold into one value.
headers_get(headers, name, default) ==
    IF headers_contains(headers, name) THEN join(get_all(headers, name)) ELSE default

RECURSIVE headers_remove(_, _)
\* The fields of headers not called name.
headers_remove(headers, name) ==
    IF headers = << >> THEN << >>
    ELSE IF Fold(Head(headers)[1]) = Fold(name)
         THEN headers_remove(Tail(headers), name)
         ELSE <<Head(headers)>> \o headers_remove(Tail(headers), name)

\* headers[name] = value adding a field and leaving the old ones in place.
headers_set_append(headers, name, value) == headers \o << <<name, value>> >>

\* A set that leaves a field the headers already have as it is.
headers_set_default(headers, name, value) ==
    IF headers_contains(headers, name) THEN headers ELSE headers \o << <<name, value>> >>

RECURSIVE headers_set(_, _, _)
\* headers[name] = value: the first field called name takes the value and
\* keeps its place and spelling, every other field called name is dropped;
\* with no such field, a new one is appended.
headers_set(headers, name, value) ==
    IF headers = << >> THEN << <<name, value>> >>
    ELSE IF Fold(Head(headers)[1]) = Fold(name)
         THEN << <<Head(headers)[1], value>> >> \o headers_remove(Tail(headers), name)
         ELSE <<Head(headers)>> \o headers_set(Tail(headers), name, value)

\* del headers[name]: every field called name goes (KeyError when there is
\* none; the callers below test for it).
headers_del(headers, name) == headers_remove(headers, name)

\* ------------------------------------------------------- mitmproxy Request
\* Request.host_header of an HTTP/1 request.
host_header(req) == headers_get(req.headers, "Host", None)

\* Request.pretty_host: the Host header is preferred to the connection's host.
pretty_host(req) ==
    IF host_header(req) # None /\ host_header(req) # ""
    THEN parse_authority(host_header(req)).host
    ELSE req.host

\* Request.url
url(req) == req.scheme \o "://" \o hostport(req.scheme, req.host, req.port) \o req.path

\* Request.pretty_url
pretty_url(req) ==
    IF host_header(req) = None \/ host_header(req) = ""
    THEN url(req)
    ELSE LET a == parse_authority(host_header(req))
             pretty_port == IF a.port # 0 THEN a.port
                            ELSE IF default_port(req.scheme) # 0
                                 THEN default_port(req.scheme) ELSE 443
         IN req.scheme \o "://" \o hostport(req.scheme, a.host, pretty_port) \o req.path

\* Request._update_host_and_authority: an existing Host header follows the
\* request's host and port.
update_host_and_authority(req) ==
    IF headers_contains(req.headers, "Host")
    THEN [req EXCEPT !.headers =
             headers_set(@, "Host", hostport(req.scheme, req.host, req.port))]
    ELSE req

\* flow.request.scheme = v
set_scheme(req, v) == [req EXCEPT !.scheme = v]

\* flow.request.host = v
set_host(req, v) == update_host_and_authority([req EXCEPT !.host = v])

\* flow.request.port = v
set_port(req, v) == update_host_and_authority([req EXCEPT !.port = v])

\* The assignment replacing the whole header collection.
set_header_fresh(req, name, value) == [req EXCEPT !.headers = << <<name, value>> >>]

\* flow.request.headers[name] = value
set_header(req, name, value) == [req EXCEPT !.headers = headers_set(@, name, value)]

\* A del that removes nothing.
del_header_noop(req, name) == req

\* del flow.request.headers[name]
del_header(req, name) == [req EXCEPT !.headers = headers_del(@, name)]

\* ------------------------------------------------------------ state
VARIABLES
    INTERCEPT_DOMAINS,      \* the rule domains, a sequence of strings
    INTERCEPT_PATH_PREFIX,  \* the path prefix, "" when none is configured
    GATEWAY_URL,            \* the gateway's URL, as the environment gives it
    GATEWAY_TOKEN,          \* the gateway's bearer token
    parsed,                 \* urlparse(GATEWAY_URL): scheme, hostname, port
    flows,                  \* the engine's flows, by flow id
    log,                    \* the records written through ctx.log, in order
    probe                   \* the last direct call of _should_intercept

vars == <<INTERCEPT_DOMAINS, INTERCEPT_PATH_PREFIX, GATEWAY_URL, GATEWAY_TOKEN, parsed,
          flows, log, probe>>

config == <<INTERCEPT_DOMAINS, INTERCEPT_PATH_PREFIX, GATEWAY_URL, GATEWAY_TOKEN, parsed>>

\* ------------------------------------------------- urllib.parse.urlparse
UpperCase == "ABCDEFGHIJKLMNOPQRSTUVWXYZ"

LowerCase == "abcdefghijklmnopqrstuvwxyz"

IsLetter(c) == \E i \in 1..26 : c = SubSeq(UpperCase, i, i) \/ c = SubSeq(LowerCase, i, i)

\* The characters a URL scheme is made of.
IsSchemeChar(c) == IsLetter(c) \/ c \in Digits \/ c \in {"+", "-", "."}

RECURSIVE lower(_)
\* str.lower
lower(s) ==
    IF Len(s) = 0 THEN ""
    ELSE LET c == SubSeq(s, 1, 1)
             l == IF \E i \in 1..26 : c = SubSeq(UpperCase, i, i)
                  THEN LET i == CHOOSE j \in 1..26 : c = SubSeq(UpperCase, j, j)
                       IN SubSeq(LowerCase, i, i)
                  ELSE c
         IN l \o lower(SubSeq(s, 2, Len(s)))

\* str.find(c) + 1: the first position of the character c in s, 0 when
\* there is none.
find(s, c) ==
    IF \E i \in 1..Len(s) : SubSeq(s, i, i) = c
    THEN CHOOSE i \in 1..Len(s) :
            /\ SubSeq(s, i, i) = c
            /\ \A j \in 1..(i - 1) : SubSeq(s, j, j) # c
    ELSE 0

\* urlparse(url), for URLs without user info, brackets, query or fragment
\* and with a port that is empty or a number up to 65535 (any other port
\* text makes _parsed.port raise ValueError): scheme (lower-cased, "" when
\* there is none), hostname (lower-cased, "" for None) and port (<< >> for
\* None, <<n>> for the number n).
urlparse(u) ==
    LET i == find(u, ":")
        has_scheme == /\ i > 1
                      /\ IsLetter(SubSeq(u, 1, 1))
                      /\ \A j \in 1..(i - 1) : IsSchemeChar(SubSeq(u, j, j))
        scheme == IF has_scheme THEN lower(SubSeq(u, 1, i - 1)) ELSE ""
        rest == IF has_scheme THEN SubSeq(u, i + 1, Len(u)) ELSE u
        has_netloc == startswith(rest, "//")
        after == IF has_netloc THEN SubSeq(rest, 3, Len(rest)) ELSE ""
        slash == find(after, "/")
        netloc == IF slash = 0 THEN after ELSE SubSeq(after, 1, slash - 1)
        colon == find(netloc, ":")
        hostname == IF colon = 0 THEN netloc ELSE SubSeq(netloc, 1, colon - 1)
        port == IF colon = 0 THEN "" ELSE SubSeq(netloc, colon + 1, Len(netloc))
    IN [scheme |-> scheme,
        hostname |-> lower(hostname),
        port |-> IF port = "" THEN << >> ELSE << StrToNat(port) >>]

\* ------------------------------------------------------ configuration
\* _parsed.hostname or "127.0.0.1"   ("" stands for a missing hostname)
GATEWAY_HOST == IF parsed.hostname # "" THEN parsed.hostname ELSE "127.0.0.1"

\* _parsed.port or (443 if _parsed.scheme == "https" else 80)
\* (parsed.port is << >> for None and <<n>> for the number n; `or` takes
\* its right side for None and for 0 alike)
GATEWAY_PORT ==
    IF parsed.port # << >> /\ parsed.port[1] # 0 THEN parsed.port[1]
    ELSE IF parsed.scheme = "https" THEN 443 ELSE 80

\* _parsed.scheme or "http"
GATEWAY_SCHEME == IF parsed.scheme # "" THEN parsed.scheme ELSE "http"

\* ------------------------------------------------- GatewayInterceptor
\* domain_match with the separating dot forgotten.
domain_match_no_dot(host) ==
    \E i \in 1..Len(INTERCEPT_DOMAINS) :
        \/ host = INTERCEPT_DOMAINS[i]
        \/ endswith(host, INTERCEPT_DOMAINS[i])

\* any(host == domain or host.endswith(f".{domain}") for domain in ...)
domain_match(host) ==
    \E i \in 1..Len(INTERCEPT_DOMAINS) :
        \/ host = INTERCEPT_DOMAINS[i]
        \/ endswith(host, "." \o INTERCEPT_DOMAINS[i])

\* _should_intercept testing the end of the path instead of its start.
should_intercept_path_suffix(host, path) ==
    IF Len(INTERCEPT_DOMAINS) = 0 THEN FALSE
    ELSE IF ~domain_match(host) THEN FALSE
    ELSE IF INTERCEPT_PATH_PREFIX # "" /\ ~endswith(path, INTERCEPT_PATH_PREFIX)
         THEN FALSE
    ELSE TRUE

\* _should_intercept taking an empty rule set to mean every host.
should_intercept_empty_is_all(host, path) ==
    IF Len(INTERCEPT_DOMAINS) = 0 THEN TRUE
    ELSE IF ~domain_match(host) THEN FALSE
    ELSE IF INTERCEPT_PATH_PREFIX # "" /\ ~startswith(path, INTERCEPT_PATH_PREFIX)
         THEN FALSE
    ELSE TRUE

\* GatewayInterceptor._should_intercept
should_intercept(host, path) ==
    IF Len(INTERCEPT_DOMAINS) = 0 THEN FALSE
    ELSE IF ~domain_match(host) THEN FALSE
    ELSE IF INTERCEPT_PATH_PREFIX # "" /\ ~startswith(path, INTERCEPT_PATH_PREFIX)
         THEN FALSE
    ELSE TRUE

\* A log record: the line's text, with the hook and the flow it came from.
LogRecord(kind, f, text) == [kind |-> kind, flow |-> f, text |-> text]

\* GatewayInterceptor.load: the lines logged when the addon is loaded
\* (flow 0 is no flow).
load ==
    << LogRecord("load", 0, "[gateway-addon] gateway url"),
       LogRecord("load", 0, "[gateway-addon] intercept domains"),
       LogRecord("load", 0, "[gateway-addon] intercept path prefix") >>
    \o (IF Len(INTERCEPT_DOMAINS) = 0
        THEN << LogRecord("warn", 0, "[gateway-addon] WARNING: INTERCEPT_DOMAINS is empty!") >>
        ELSE << >>)

\* request without the write of X-Original-Host (line 77 left out).
request_no_original_host(f, req) ==
    LET host == pretty_host(req)
        path == req.path
    IN IF ~should_intercept(host, path)
       THEN [request |-> req, out |-> << >>]
       ELSE LET original_url == pretty_url(req)
                r1 == set_scheme(req, GATEWAY_SCHEME)
                r2 == set_host(r1, GATEWAY_HOST)
                r3 == set_port(r2, GATEWAY_PORT)
                r4 == set_header(r3, "Authorization", "Bearer " \o GATEWAY_TOKEN)
                r6 == set_header(r4, "X-Intercepted-By", "cyber-drill-gateway")
            IN [request |-> r6,
                out |-> << LogRecord("intercepted", f,
                             "[gateway-addon] intercepted: " \o original_url \o " -> "
                             \o GATEWAY_SCHEME \o "://" \o GATEWAY_HOST \o ":"
                             \o ToString(GATEWAY_PORT) \o path) >>]

\* GatewayInterceptor.request on flow f whose request is req: the request
\* it leaves and the log records it writes.
request(f, req) ==
    LET host == pretty_host(req)
        path == req.path
    IN IF ~should_intercept(host, path)
       THEN [request |-> req, out |-> << >>]
       ELSE LET original_host == host
                original_url == pretty_url(req)
                r1 == set_scheme(req, GATEWAY_SCHEME)
                r2 == set_host(r1, GATEWAY_HOST)
                r3 == set_port(r2, GATEWAY_PORT)
                r4 == set_header(r3, "Authorization", "Bearer " \o GATEWAY_TOKEN)
                r5 == set_header(r4, "X-Original-Host", original_host)
                r6 == set_header(r5, "X-Intercepted-By", "cyber-drill-gateway")
            IN [request |-> r6,
                out |-> << LogRecord("intercepted", f,
                             "[gateway-addon] intercepted: " \o original_url \o " -> "
                             \o GATEWAY_SCHEME \o "://" \o GATEWAY_HOST \o ":"
                             \o ToString(GATEWAY_PORT) \o path) >>]

\* response without the removal of X-Original-Host (lines 96-97 left out).
response_keeps_original_host(f, req, resp) ==
    IF headers_get(req.headers, "X-Intercepted-By", None) = "cyber-drill-gateway"
    THEN LET original_host == headers_get(req.headers, "X-Original-Host", "unknown")
             rec == LogRecord("response", f,
                       "[gateway-addon] response: " \o original_host \o req.path
                       \o " -> status=" \o ToString(resp.status_code))
         IN [request |-> del_header(req, "X-Intercepted-By"), out |-> <<rec>>,
             raised |-> FALSE]
    ELSE [request |-> req, out |-> << >>, raised |-> FALSE]

\* response reading X-Original-Host by subscript, with no default: a missing
\* header raises KeyError before anything is logged or removed.
response_no_default(f, req, resp) ==
    IF headers_get(req.headers, "X-Intercepted-By", None) = "cyber-drill-gateway"
    THEN IF ~headers_contains(req.headers, "X-Original-Host")
         THEN [request |-> req, out |-> << >>, raised |-> TRUE]
         ELSE LET original_host == headers_get(req.headers, "X-Original-Host", "unknown")
                  rec == LogRecord("response", f,
                            "[gateway-addon] response: " \o original_host \o req.path
                            \o " -> status=" \o ToString(resp.status_code))
              IN [request |-> del_header(del_header(req, "X-Intercepted-By"),
                                         "X-Original-Host"),
                  out |-> <<rec>>, raised |-> FALSE]
    ELSE [request |-> req, out |-> << >>, raised |-> FALSE]

\* response putting the original host back on the request before it removes
\* the markers.
response_restores_host(f, req, resp) ==
    IF headers_get(req.headers, "X-Intercepted-By", None) = "cyber-drill-gateway"
    THEN LET original_host == headers_get(req.headers, "X-Original-Host", "unknown")
             rec == LogRecord("response", f,
                       "[gateway-addon] response: " \o original_host \o req.path
                       \o " -> status=" \o ToString(resp.status_code))
             r0 == set_host(req, original_host)
             r1 == del_header(r0, "X-Intercepted-By")
             r2 == IF headers_contains(r1.headers, "X-Original-Host")
                   THEN del_header(r1, "X-Original-Host")
                   ELSE r1
         IN [request |-> r2, out |-> <<rec>>, raised |-> FALSE]
    ELSE [request |-> req, out |-> << >>, raised |-> FALSE]

\* response guarded by the presence of X-Intercepted-By, whatever its value.
response_on_presence(f, req, resp) ==
    IF headers_contains(req.headers, "X-Intercepted-By")
    THEN LET original_host == headers_get(req.headers, "X-Original-Host", "unknown")
             rec == LogRecord("response", f,
                       "[gateway-addon] response: " \o original_host \o req.path
                       \o " -> status=" \o ToString(resp.status_code))
             r1 == del_header(req, "X-Intercepted-By")
             r2 == IF headers_contains(r1.headers, "X-Original-Host")
                   THEN del_header(r1, "X-Original-Host")
                   ELSE r1
         IN [request |-> r2, out |-> <<rec>>, raised |-> FALSE]
    ELSE [request |-> req, out |-> << >>, raised |-> FALSE]

\* response without the removal of X-Intercepted-By (line 95 left out).
response_keeps_marker(f, req, resp) ==
    IF headers_get(req.headers, "X-Intercepted-By", None) = "cyber-drill-gateway"
    THEN LET original_host == headers_get(req.headers, "X-Original-Host", "unknown")
             rec == LogRecord("response", f,
                       "[gateway-addon] response: " \o original_host \o req.path
                       \o " -> status=" \o ToString(resp.status_code))
             r2 == IF headers_contains(req.headers, "X-Original-Host")
                   THEN del_header(req, "X-Original-Host")
                   ELSE req
         IN [request |-> r2, out |-> <<rec>>, raised |-> FALSE]
    ELSE [request |-> req, out |-> << >>, raised |-> FALSE]

\* GatewayInterceptor.response on flow f with request req and response resp:
\* the request it leaves, the log records it writes, and whether it raised
\* (del of a header that is not there raises KeyError).
response(f, req, resp) ==
    IF headers_get(req.headers, "X-Intercepted-By", None) = "cyber-drill-gateway"
    THEN LET original_host == headers_get(req.headers, "X-Original-Host", "unknown")
             rec == LogRecord("response", f,
                       "[gateway-addon] response: " \o original_host \o req.path
                       \o " -> status=" \o ToString(resp.status_code))
             r1 == del_header(req, "X-Intercepted-By")
             r2 == IF headers_contains(r1.headers, "X-Original-Host")
                   THEN del_header(r1, "X-Original-Host")
                   ELSE r1
         IN IF ~headers_contains(req.headers, "X-Intercepted-By")
            THEN [request |-> req, out |-> <<rec>>, raised |-> TRUE]
            ELSE [request |-> r2, out |-> <<rec>>, raised |-> FALSE]
    ELSE [request |-> req, out |-> << >>, raised |-> FALSE]

\* ------------------------------------------------------------ inputs
RECURSIVE Sub(_, _)
\* host with n subdomain labels in front.
Sub(host, n) == IF n = 0 THEN host ELSE "x." \o Sub(host, n - 1)

\* Values of INTERCEPT_DOMAINS after the split and strip of lines 30-34.
DomainLists == { << >>, <<"a.io", "d.com">> }

PathPrefixes == { "", "/v1" }

Tokens == { "sk-deploy-001" }

\* Values of GATEWAY_URL: one with an explicit port, one with none.
GatewayUrls == { "http://1.2.3.4:18790", "https://gw.example.com" }

\* Hosts clients connect to: subdomains of d.com, and an unrelated host.
FlowHosts == { Sub("d.com", n) : n \in 1..MaxLabels } \cup { "example.com" }

FlowPaths == { "/v1/chat/completions", "/" }

\* Header collections clients send.
FlowHeaders ==
    { << >>,
      << <<"Host", "x.d.com:8443">>, <<"Accept", "*/*">> >>,
      << <<"authorization", "Bearer client">>, <<"Accept", "*/*">>,
         <<"Authorization", "Basic Yjpj">> >>,
      << <<"Host", "example.com">>, <<"X-Intercepted-By", "cyber-drill-gateway">> >>,
      << <<"X-Original-Host", "spoofed.example">>, <<"x-intercepted-by", "client">> >>,
      << <<"X-Intercepted-By", "cyber-drill-gateway">>, <<"Accept", "*/*">> >> }

InboundRequests ==
    { [scheme |-> "https", host |-> h, port |-> 443, method |-> "POST",
       path |-> p, content |-> "{}", headers |-> hs] :
      h \in FlowHosts, p \in FlowPaths, hs \in FlowHeaders }

\* Status codes servers answer with.
StatusCodes == { 200 }

NoRequest ==
    [scheme |-> "", host |-> "", port |-> 0, method |-> "", path |-> "",
     content |-> "", headers |-> << >>]

NoResponse == [status_code |-> 0, content |-> ""]

NoProbe == [called |-> FALSE, host |-> "", path |-> "", result |-> FALSE]

\* ------------------------------------------------------------ behaviour
\* The configuration is read once, when the module is imported; no flow
\* exists yet and the addon has been loaded.
InitConfig ==
    /\ INTERCEPT_DOMAINS \in DomainLists
    /\ INTERCEPT_PATH_PREFIX \in PathPrefixes
    /\ GATEWAY_TOKEN \in Tokens
    /\ GATEWAY_URL \in GatewayUrls
    /\ parsed = urlparse(GATEWAY_URL)

Init ==
    /\ InitConfig
    /\ flows = [f \in FlowIds |->
                   [phase |-> "idle", request |-> NoRequest, inbound |-> NoRequest,
                    wire |-> NoRequest, response |-> NoResponse, raised |-> FALSE]]
    /\ log = load
    /\ probe = NoProbe

\* The engine reads a client's request: flow f begins.
NewRequest(f) ==
    /\ flows[f].phase = "idle"
    /\ \E req \in InboundRequests :
          flows' = [flows EXCEPT ![f].phase = "received",
                                 ![f].request = req,
                                 ![f].inbound = req]
    /\ UNCHANGED <<config, log, probe>>

\* A request hook that works on shared state: it rewrites every request the
\* engine has received, not only the one of the flow it was called with.
RequestHook_shared(f) ==
    /\ flows[f].phase = "received"
    /\ flows' = [g \in FlowIds |->
                    IF flows[g].phase = "received"
                    THEN [flows[g] EXCEPT
                             !.phase = IF g = f THEN "hooked" ELSE @,
                             !.request = request(g, @).request]
                    ELSE flows[g]]
    /\ log' = log \o request(f, flows[f].request).out
    /\ UNCHANGED <<config, probe>>

\* The engine calls the addon's request hook on flow f.
RequestHook(f) ==
    /\ flows[f].phase = "received"
    /\ LET r == request(f, flows[f].request)
       IN /\ flows' = [flows EXCEPT ![f].phase = "hooked", ![f].request = r.request]
          /\ log' = log \o r.out
    /\ UNCHANGED <<config, probe>>

\* The engine sends the request of flow f, as the hook left it, to the
\* server named by its scheme, host and port.
Forward(f) ==
    /\ flows[f].phase = "hooked"
    /\ flows' = [flows EXCEPT ![f].phase = "sent", ![f].wire = flows[f].request]
    /\ UNCHANGED <<config, log, probe>>

\* The server's response to flow f arrives.
ResponseArrives(f) ==
    /\ flows[f].phase = "sent"
    /\ \E s \in StatusCodes :
          flows' = [flows EXCEPT ![f].phase = "responded",
                                 ![f].response = [status_code |-> s, content |-> "ok"]]
    /\ UNCHANGED <<config, log, probe>>

\* The engine calls the addon's response hook on flow f and then delivers
\* the response to the client.
ResponseHook(f) ==
    /\ flows[f].phase = "responded"
    /\ LET r == response(f, flows[f].request, flows[f].response)
       IN /\ flows' = [flows EXCEPT ![f].phase = "done",
                                    ![f].request = r.request,
                                    ![f].raised = r.raised]
          /\ log' = log \o r.out
    /\ UNCHANGED <<config, probe>>

Next ==
    \E f \in FlowIds :
        \/ NewRequest(f)
        \/ RequestHook(f)
        \/ Forward(f)
        \/ ResponseArrives(f)
        \/ ResponseHook(f)

Spec == Init /\ [][Next]_vars

\* ------------------------------------- the response hook called once more
\* The response hook is called again on flow f, which has been through it.
ResponseHookAgain(f) ==
    /\ flows[f].phase = "done"
    /\ LET r == response(f, flows[f].request, flows[f].response)
       IN /\ flows' = [flows EXCEPT ![f].phase = "again",
                                    ![f].request = r.request,
                                    ![f].raised = r.raised]
          /\ log' = log \o r.out
    /\ UNCHANGED <<config, probe>>

NextAgain ==
    \E f \in FlowIds :
        \/ NewRequest(f)
        \/ RequestHook(f)
        \/ Forward(f)
        \/ ResponseArrives(f)
        \/ ResponseHook(f)
        \/ ResponseHookAgain(f)

SpecAgain == Init /\ [][NextAgain]_vars

\* ------------------------------------------- the Matcher called directly
\* Rule sets, prefixes, hosts and paths for direct calls of _should_intercept.
ProbeDomainLists == { << >>, <<"d.com">>, <<"a.io", "d.com">>, <<"x.d.com", "a.io">> }

ProbePathPrefixes == { "", "/v1", "/v1/chat" }

ProbeHosts ==
    { Sub(h, n) : h \in {"d.com", "evild.com", "example.com", "a.io", "com", "D.COM"},
                  n \in 0..MaxLabels }
    \cup { "", ".d.com", "d.com.evil.org", "xa.io" }

ProbePaths == { "", "/", "/v", "/v1", "/v1/chat/completions", "/V1/chat", "/x/v1" }

InitMatcher ==
    /\ INTERCEPT_DOMAINS \in ProbeDomainLists
    /\ INTERCEPT_PATH_PREFIX \in ProbePathPrefixes
    /\ GATEWAY_TOKEN \in Tokens
    /\ GATEWAY_URL \in GatewayUrls
    /\ parsed = urlparse(GATEWAY_URL)
    /\ flows = [f \in FlowIds |->
                   [phase |-> "idle", request |-> NoRequest, inbound |-> NoRequest,
                    wire |-> NoRequest, response |-> NoResponse, raised |-> FALSE]]
    /\ log = load
    /\ probe = NoProbe

\* self._should_intercept(host, path)
Call_should_intercept ==
    /\ \E host \in ProbeHosts, path \in ProbePaths :
          probe' = [called |-> TRUE, host |-> host, path |-> path,
                    result |-> should_intercept(host, path)]
    /\ UNCHANGED <<config, flows, log>>

NextMatcher == Call_should_intercept

SpecMatcher == InitMatcher /\ [][NextMatcher]_vars

\* ------------------------------------------ the gateway target resolved
\* A URL written from its parts: scheme ("" for none), host ("" for none),
\* port (<< >> for none, <<n>> for n) and path.
Compose(scheme, host, port, path) ==
    (IF scheme = "" THEN "" ELSE scheme \o ":") \o "//" \o host
    \o (IF port = << >> THEN "" ELSE ":" \o ToString(port[1])) \o path

UrlSchemes == { "http", "https", "HTTPS", "ws", "" }

UrlHosts == { "1.2.3.4", "gw.example.com", "GW.io", "" }

UrlPorts == { << >>, <<0>>, <<80>>, <<443>>, <<18790>> }

UrlPaths == { "", "/api" }

ResolverUrls ==
    { Compose(s, h, p, q) : s \in UrlSchemes, h \in UrlHosts, p \in UrlPorts, q \in UrlPaths }

\* _parsed before the module has been imported.
NotParsed == [scheme |-> "", hostname |-> "", port |-> << >>]

\* The environment is set; the addon's module has not been imported yet.
InitResolver ==
    /\ INTERCEPT_DOMAINS \in DomainLists
    /\ INTERCEPT_PATH_PREFIX \in PathPrefixes
    /\ GATEWAY_URL \in ResolverUrls
    /\ GATEWAY_TOKEN \in Tokens
    /\ parsed = NotParsed
    /\ flows = [f \in FlowIds |->
                   [phase |-> "idle", request |-> NoRequest, inbound |-> NoRequest,
                    wire |-> NoRequest, response |-> NoResponse, raised |-> FALSE]]
    /\ log = << >>
    /\ probe = NoProbe

\* The engine imports the module, which parses GATEWAY_URL, and calls load.
LoadAddon ==
    /\ log = << >>
    /\ parsed' = urlparse(GATEWAY_URL)
    /\ log' = load
    /\ UNCHANGED <<INTERCEPT_DOMAINS, INTERCEPT_PATH_PREFIX, GATEWAY_URL,
                   GATEWAY_TOKEN, flows, probe>>

NextResolver == LoadAddon

SpecResolver == InitResolver /\ [][NextResolver]_vars

\* ============================================================ properties
\* Character of s at position i.
CharAt(s, i) == SubSeq(s, i, i)

\* host is domain, or something followed by a dot followed by domain,
\* stated position by position.
IsDomainOrSubdomain(host, domain) ==
    \E k \in 0..Len(host) :
        /\ Len(host) - k = Len(domain)
        /\ \A i \in 1..Len(domain) : CharAt(host, k + i) = CharAt(domain, i)
        /\ (k = 0 \/ CharAt(host, k) = ".")

\* Some rule domain covers host.
SomeRuleCovers(host) ==
    \E i \in 1..Len(INTERCEPT_DOMAINS) : IsDomainOrSubdomain(host, INTERCEPT_DOMAINS[i])

\* path begins with the configured prefix, character by character; no prefix
\* admits every path.
PathAdmitted(path) ==
    \/ INTERCEPT_PATH_PREFIX = ""
    \/ /\ Len(INTERCEPT_PATH_PREFIX) <= Len(path)
       /\ \A i \in 1..Len(INTERCEPT_PATH_PREFIX) :
             CharAt(path, i) = CharAt(INTERCEPT_PATH_PREFIX, i)

\* C7: with a non-empty rule set, a call of _should_intercept can only
\* return true for a host that equals a rule domain or ends with "." and a
\* rule domain, and for an admitted path it returns true for exactly those
\* hosts; a host that ends with a rule domain without the dot is refused.
C7_DomainMatch ==
    (probe.called /\ INTERCEPT_DOMAINS # << >>) =>
        /\ probe.result => SomeRuleCovers(probe.host)
        /\ PathAdmitted(probe.path) => (probe.result <=> SomeRuleCovers(probe.host))

\* The call ("evild.com", "/") under the rule d.com with no prefix: refused.
C7_Witness ==
    /\ probe.called
    /\ probe.host = "evild.com"
    /\ probe.path = "/"
    /\ INTERCEPT_DOMAINS = <<"d.com">>
    /\ INTERCEPT_PATH_PREFIX = ""
    /\ ~probe.result

\* C8: for a host some rule covers, _should_intercept returns true exactly
\* when the path starts with the configured prefix, compared character by
\* character (so case-sensitively), and for every path when the prefix is
\* empty.
C8_PathPrefix ==
    (probe.called /\ SomeRuleCovers(probe.host)) =>
        /\ INTERCEPT_PATH_PREFIX = "" => probe.result
        /\ INTERCEPT_PATH_PREFIX # "" =>
              (probe.result <=> /\ Len(INTERCEPT_PATH_PREFIX) <= Len(probe.path)
                                /\ \A i \in 1..Len(INTERCEPT_PATH_PREFIX) :
                                      CharAt(probe.path, i) = CharAt(INTERCEPT_PATH_PREFIX, i))

\* A covered host whose path differs from the prefix "/v1" only by case.
C8_Witness ==
    /\ probe.called
    /\ probe.host = "x.d.com"
    /\ INTERCEPT_DOMAINS = <<"d.com">>
    /\ INTERCEPT_PATH_PREFIX = "/v1"
    /\ probe.path = "/V1/chat"
    /\ ~probe.result

\* ---------------------------------------------------------------- flows
HasMarker(req) == headers_contains(req.headers, "X-Intercepted-By")

HasOriginalHost(req) == headers_contains(req.headers, "X-Original-Host")

\* The Matcher's verdict on the request flow f came in with.
Matched(f) == should_intercept(pretty_host(flows[f].inbound), flows[f].inbound.path)

\* Flow f is between the end of its request hook and the start of its
\* response hook.
BetweenHooks(f) == flows[f].phase \in {"hooked", "sent", "responded"}

\* The request of flow f has gone out to the server.
Forwarded(f) == flows[f].phase \in {"sent", "responded", "done"}

\* The fields of headers other than those called by one of names.
RECURSIVE Without(_, _)
Without(headers, names) ==
    IF headers = << >> THEN << >>
    ELSE IF \E n \in names : Fold(Head(headers)[1]) = Fold(n)
         THEN Without(Tail(headers), names)
         ELSE <<Head(headers)>> \o Without(Tail(headers), names)

\* C1 as stated: once both hooks have run on a flow, matched or not and
\* whatever headers it came in with, its request carries neither
\* X-Intercepted-By nor X-Original-Host.
C1_NoReservedAfterResponse ==
    \A f \in FlowIds :
        flows[f].phase = "done" =>
            ~HasMarker(flows[f].request) /\ ~HasOriginalHost(flows[f].request)

\* C1 amended: once both hooks have run on a flow that the Matcher matched
\* (whatever headers it came in with), or on an unmatched flow that came in
\* with neither reserved header, its request carries neither reserved header.
C1_NoReservedAfterResponse_Amended ==
    \A f \in FlowIds :
        ( /\ flows[f].phase = "done"
          /\ \/ Matched(f)
             \/ ~HasMarker(flows[f].inbound) /\ ~HasOriginalHost(flows[f].inbound) )
        => ~HasMarker(flows[f].request) /\ ~HasOriginalHost(flows[f].request)

\* A matched flow that came in with both reserved headers set by the client
\* and has left the response hook.
C1_Witness ==
    \E f \in FlowIds :
        /\ flows[f].phase = "done"
        /\ Matched(f)
        /\ HasMarker(flows[f].inbound)
        /\ HasOriginalHost(flows[f].inbound)
        /\ ~HasMarker(flows[f].request)
        /\ ~HasOriginalHost(flows[f].request)

\* C2: on a flow the Matcher does not match, neither hook changes the
\* request and neither writes a log record for the flow.
C2_UnmatchedUntouched ==
    \A f \in FlowIds :
        (flows[f].phase # "idle" /\ ~Matched(f)) =>
            /\ flows[f].request = flows[f].inbound
            /\ \A i \in 1..Len(log) : log[i].flow # f

\* C3: the request of a rewritten flow carries neither marker header when
\* the engine sends it to the gateway, nor when the response is delivered.
C3_MarkersNeverLeave ==
    \A f \in FlowIds :
        Matched(f) =>
            /\ Forwarded(f) =>
                  ~HasMarker(flows[f].wire) /\ ~HasOriginalHost(flows[f].wire)
            /\ flows[f].phase = "done" =>
                  ~HasMarker(flows[f].request) /\ ~HasOriginalHost(flows[f].request)

\* C4: right after the request hook on a matching flow, scheme, host and
\* port are the gateway's, there is exactly one Authorization field and it
\* is "Bearer <token>", the one X-Original-Host field holds the host the
\* hook read from the request before changing it, and the one
\* X-Intercepted-By field holds "cyber-drill-gateway".
C4_Rewrite ==
    \A f \in FlowIds :
        (flows[f].phase = "hooked" /\ Matched(f)) =>
            /\ flows[f].request.scheme = GATEWAY_SCHEME
            /\ flows[f].request.host = GATEWAY_HOST
            /\ flows[f].request.port = GATEWAY_PORT
            /\ get_all(flows[f].request.headers, "Authorization")
                  = << "Bearer " \o GATEWAY_TOKEN >>
            /\ get_all(flows[f].request.headers, "X-Original-Host")
                  = << pretty_host(flows[f].inbound) >>
            /\ get_all(flows[f].request.headers, "X-Intercepted-By")
                  = << "cyber-drill-gateway" >>

\* A matching flow that came in with two Authorization fields and has just
\* left the request hook.
C4_Witness ==
    \E f \in FlowIds :
        /\ flows[f].phase = "hooked"
        /\ Matched(f)
        /\ Len(get_all(flows[f].inbound.headers, "Authorization")) = 2
        /\ flows[f].request.host = GATEWAY_HOST

\* C5 as stated: the request hook on a matching flow leaves method, path
\* (with its query string) and body as they were, and every header field
\* other than Authorization, X-Original-Host and X-Intercepted-By.
C5_RewriteFrame ==
    \A f \in FlowIds :
        (flows[f].phase = "hooked" /\ Matched(f)) =>
            /\ flows[f].request.method = flows[f].inbound.method
            /\ flows[f].request.path = flows[f].inbound.path
            /\ flows[f].request.content = flows[f].inbound.content
            /\ Without(flows[f].request.headers,
                       {"Authorization", "X-Original-Host", "X-Intercepted-By"})
               = Without(flows[f].inbound.headers,
                         {"Authorization", "X-Original-Host", "X-Intercepted-By"})

\* C5 amended: the request hook on a matching flow leaves method, path and
\* body as they were, and every header field other than Authorization,
\* X-Original-Host, X-Intercepted-By and Host; a Host field the request came
\* in with now names the gateway's host (and port, unless it is the
\* scheme's default), and no Host field is added to a request without one.
C5_RewriteFrame_Amended ==
    \A f \in FlowIds :
        (flows[f].phase = "hooked" /\ Matched(f)) =>
            /\ flows[f].request.method = flows[f].inbound.method
            /\ flows[f].request.path = flows[f].inbound.path
            /\ flows[f].request.content = flows[f].inbound.content
            /\ Without(flows[f].request.headers,
                       {"Authorization", "X-Original-Host", "X-Intercepted-By", "Host"})
               = Without(flows[f].inbound.headers,
                         {"Authorization", "X-Original-Host", "X-Intercepted-By", "Host"})
            /\ get_all(flows[f].request.headers, "Host")
               = IF headers_contains(flows[f].inbound.headers, "Host")
                 THEN << hostport(GATEWAY_SCHEME, GATEWAY_HOST, GATEWAY_PORT) >>
                 ELSE << >>

\* A matching flow that came in with a Host field and an Accept field and
\* has just left the request hook.
C5_Witness ==
    \E f \in FlowIds :
        /\ flows[f].phase = "hooked"
        /\ Matched(f)
        /\ headers_contains(flows[f].inbound.headers, "Host")
        /\ headers_contains(flows[f].request.headers, "Accept")
        /\ flows[f].request.port = GATEWAY_PORT

\* C6: a flow the request hook rewrote carries both marker headers from the
\* end of the request hook until the response hook starts, and neither once
\* the response hook has returned.
C6_MarkerLifetime ==
    \A f \in FlowIds :
        Matched(f) =>
            /\ BetweenHooks(f) =>
                  HasMarker(flows[f].request) /\ HasOriginalHost(flows[f].request)
            /\ flows[f].phase = "done" =>
                  ~HasMarker(flows[f].request) /\ ~HasOriginalHost(flows[f].request)

\* One rewritten flow is done while another waits for its response hook.
C6_Witness ==
    \E f, g \in FlowIds :
        /\ Matched(f) /\ flows[f].phase = "done"
        /\ ~HasMarker(flows[f].request)
        /\ Matched(g) /\ flows[g].phase = "responded"
        /\ HasMarker(flows[g].request) /\ HasOriginalHost(flows[g].request)

\* C9: with an empty rule set the Matcher refuses every flow's request, so
\* the request hook leaves every request as it came in, the request goes
\* out unchanged, no interception is logged and no hook raises.
C9_EmptyRulesPassThrough ==
    INTERCEPT_DOMAINS = << >> =>
        /\ \A f \in FlowIds :
              /\ flows[f].phase # "idle" => ~Matched(f)
              /\ BetweenHooks(f) => flows[f].request = flows[f].inbound
              /\ Forwarded(f) => flows[f].wire = flows[f].inbound
              /\ ~flows[f].raised
        /\ \A i \in 1..Len(log) : log[i].kind # "intercepted"

\* With no rules, a request for x.d.com/v1/chat/completions has gone out
\* and been answered.
C9_Witness ==
    /\ INTERCEPT_DOMAINS = << >>
    /\ \E f \in FlowIds :
          /\ flows[f].phase = "done"
          /\ flows[f].inbound.host = "x.d.com"
          /\ flows[f].inbound.path = "/v1/chat/completions"
          /\ flows[f].wire = flows[f].inbound

\* C10: every response record in the log has an interception record of the
\* same flow before it.
C10_RequestLogFirst ==
    \A i \in 1..Len(log) :
        log[i].kind = "response" =>
            \E j \in 1..(i - 1) :
                log[j].kind = "intercepted" /\ log[j].flow = log[i].flow

\* ------------------------------------------------------ the response hook
\* This step is the response hook running on flow f.
ResponseHookStep(f) == flows[f].phase = "responded" /\ flows'[f].phase = "done"

\* req carries the intercepted marker: one X-Intercepted-By field holding
\* the fixed tag.
CarriesTag(req) == get_all(req.headers, "X-Intercepted-By") = << "cyber-drill-gateway" >>

\* The response record of flow f naming host as the original host.
ResponseRecord(f, host) ==
    [kind |-> "response", flow |-> f,
     text |-> "[gateway-addon] response: " \o host \o flows[f].request.path
              \o " -> status=" \o ToString(flows[f].response.status_code)]

\* C11: when the response hook runs on a flow whose request carries the
\* intercepted marker but no X-Original-Host, it does not raise, it writes
\* exactly the response record with "unknown" as the original host, the
\* marker is gone afterwards and the response is as it was.
C11_SentinelNoFault ==
    [][ \A f \in FlowIds :
          ( /\ ResponseHookStep(f)
            /\ CarriesTag(flows[f].request)
            /\ ~HasOriginalHost(flows[f].request) )
          => /\ ~flows'[f].raised
             /\ log' = Append(log, ResponseRecord(f, "unknown"))
             /\ ~HasMarker(flows'[f].request)
             /\ flows'[f].response = flows[f].response ]_vars

\* A flow that came in with the marker set by the client and no
\* X-Original-Host has left the response hook, logged with "unknown".
C11_Witness ==
    \E f \in FlowIds :
        /\ flows[f].phase = "done"
        /\ CarriesTag(flows[f].inbound)
        /\ ~HasOriginalHost(flows[f].inbound)
        /\ ~Matched(f)
        /\ ~flows[f].raised
        /\ ~HasMarker(flows[f].request)
        /\ \E i \in 1..Len(log) : log[i] = ResponseRecord(f, "unknown")

\* ------------------------------------------------------------ concurrency
\* The request both hooks leave on a flow that came in with request inbound
\* and was answered with resp, when nothing else runs in between.
ProcessedAlone(f, inbound, resp) == response(f, request(f, inbound).request, resp).request

\* C12: no step changes the rule set, the prefix, the token or the gateway
\* target; a step that changes one flow changes no other flow; and whatever
\* the interleaving, a flow that is done holds the request the two hooks
\* leave on it when it is processed alone.
C12_Stateless ==
    /\ [][ /\ config' = config
           /\ \A f \in FlowIds :
                 flows'[f] # flows[f] =>
                    \A g \in FlowIds \ {f} : flows'[g] = flows[g] ]_vars
    /\ [](\A f \in FlowIds :
             flows[f].phase = "done" =>
                flows[f].request
                   = ProcessedAlone(f, flows[f].inbound, flows[f].response))

\* Two rewritten flows whose hooks interleaved: f's request hook, g's
\* request hook, g's response hook, f's response hook.
C12_Witness ==
    \E f, g \in FlowIds :
        /\ f # g
        /\ flows[f].phase = "done" /\ flows[g].phase = "done"
        /\ \E i, j, k, l \in 1..Len(log) :
              /\ i < j /\ j < k /\ k < l
              /\ log[i].kind = "intercepted" /\ log[i].flow = f
              /\ log[j].kind = "intercepted" /\ log[j].flow = g
              /\ log[k].kind = "response" /\ log[k].flow = g
              /\ log[l].kind = "response" /\ log[l].flow = f

\* --------------------------------------------------- the gateway target
\* The addon has been loaded.
Loaded == log # << >>

\* C13: once the addon is loaded, the resolved port is a number: the port
\* written in the gateway URL when there is one, otherwise 443 for the
\* scheme https and 80 for any other scheme; and the host is 127.0.0.1 when
\* the URL names none.
C13_ResolvedTarget ==
    Loaded =>
        \A s \in UrlSchemes, h \in UrlHosts, p \in UrlPorts, q \in UrlPaths :
            GATEWAY_URL = Compose(s, h, p, q) =>
                /\ GATEWAY_PORT \in Nat
                /\ GATEWAY_PORT = IF p # << >> THEN p[1]
                                  ELSE IF s \in {"https", "HTTPS"} THEN 443 ELSE 80
                /\ h = "" => GATEWAY_HOST = "127.0.0.1"

\* The same with the port 0 set aside: a URL that gives the port 0 resolves
\* to the scheme's default port.
C13_ResolvedTarget_NonZero ==
    Loaded =>
        \A s \in UrlSchemes, h \in UrlHosts, p \in UrlPorts, q \in UrlPaths :
            GATEWAY_URL = Compose(s, h, p, q) =>
                /\ GATEWAY_PORT \in Nat
                /\ GATEWAY_PORT = IF p # << >> /\ p[1] # 0 THEN p[1]
                                  ELSE IF s \in {"https", "HTTPS"} THEN 443 ELSE 80
                /\ h = "" => GATEWAY_HOST = "127.0.0.1"

\* ------------------------------------------------------- irreversibility
\* The request hook has run on flow f.
Hooked(f) == flows[f].phase \in {"hooked", "sent", "responded", "done"}

\* C14: from the end of the request hook on, the request of a rewritten
\* flow has the gateway's scheme, host and port, the response hook
\* included; and a response-hook step changes nothing of a flow but its
\* X-Intercepted-By and X-Original-Host fields: scheme, host, port, method,
\* path, body, every other header (Authorization among them) and the
\* response stay as they were.
C14_RewriteStays ==
    /\ [](\A f \in FlowIds :
             (Hooked(f) /\ Matched(f)) =>
                /\ flows[f].request.scheme = GATEWAY_SCHEME
                /\ flows[f].request.host = GATEWAY_HOST
                /\ flows[f].request.port = GATEWAY_PORT)
    /\ [][ \A f \in FlowIds :
             ResponseHookStep(f) =>
                /\ flows'[f].request.scheme = flows[f].request.scheme
                /\ flows'[f].request.host = flows[f].request.host
                /\ flows'[f].request.port = flows[f].request.port
                /\ flows'[f].request.method = flows[f].request.method
                /\ flows'[f].request.path = flows[f].request.path
                /\ flows'[f].request.content = flows[f].request.content
                /\ Without(flows'[f].request.headers, {"X-Intercepted-By", "X-Original-Host"})
                   = Without(flows[f].request.headers, {"X-Intercepted-By", "X-Original-Host"})
                /\ get_all(flows'[f].request.headers, "Authorization")
                   = get_all(flows[f].request.headers, "Authorization")
                /\ flows'[f].response = flows[f].response ]_vars

\* A rewritten flow has left the response hook: its request still names the
\* gateway, not the host it came in for, and still carries the gateway's
\* Authorization.
C14_Witness ==
    \E f \in FlowIds :
        /\ flows[f].phase = "done"
        /\ Matched(f)
        /\ flows[f].request.host = GATEWAY_HOST
        /\ flows[f].inbound.host # GATEWAY_HOST
        /\ ~HasMarker(flows[f].request)
        /\ get_all(flows[f].request.headers, "Authorization") = << "Bearer " \o GATEWAY_TOKEN >>

\* ------------------------------------------------ the response hook's guard
\* This step adds one record to the log, a response record of flow f.
LogsResponseOf(f) ==
    /\ Len(log') = Len(log) + 1
    /\ SubSeq(log', 1, Len(log)) = log
    /\ log'[Len(log')].kind = "response"
    /\ log'[Len(log')].flow = f

\* This step leaves the request of flow f and the log as they were.
HookIsNoOp(f) == flows'[f].request = flows[f].request /\ log' = log

\* C15 as stated: the response hook is a no-op when the request has no
\* X-Intercepted-By header, and when it has one, whatever its value, the
\* hook writes the response record and removes both marker headers.
C15_DecidesOnPresence ==
    [][ \A f \in FlowIds :
          ResponseHookStep(f) =>
             IF HasMarker(flows[f].request)
             THEN /\ LogsResponseOf(f)
                  /\ ~HasMarker(flows'[f].request)
                  /\ ~HasOriginalHost(flows'[f].request)
             ELSE HookIsNoOp(f) ]_vars

\* C15 amended: the response hook decides on the value of X-Intercepted-By:
\* it is a no-op when the header is absent or holds anything but
\* "cyber-drill-gateway", and when the header holds "cyber-drill-gateway" it
\* writes the response record and removes both marker headers.
C15_DecidesOnValue ==
    [][ \A f \in FlowIds :
          ResponseHookStep(f) =>
             IF CarriesTag(flows[f].request)
             THEN /\ LogsResponseOf(f)
                  /\ ~HasMarker(flows'[f].request)
                  /\ ~HasOriginalHost(flows'[f].request)
             ELSE HookIsNoOp(f) ]_vars

\* A flow that came in with X-Intercepted-By holding another value has left
\* the response hook with that header and X-Original-Host still on it and
\* nothing logged for it.
C15_Witness ==
    \E f \in FlowIds :
        /\ flows[f].phase = "done"
        /\ ~Matched(f)
        /\ HasMarker(flows[f].request)
        /\ ~CarriesTag(flows[f].request)
        /\ flows[f].request = flows[f].inbound
        /\ \A i \in 1..Len(log) : log[i].flow # f

\* ------------------------------------------- the original host in the log
\* C16: the response hook of a flow the request hook rewrote writes exactly
\* the response record whose original host is the host the request had when
\* the request hook started, and between the hooks each reserved header of
\* such a flow has one value, the one the request hook wrote, whatever the
\* client sent under those names.
C16_OriginalHostLogged ==
    /\ [][ \A f \in FlowIds :
             (ResponseHookStep(f) /\ Matched(f)) =>
                log' = Append(log, ResponseRecord(f, pretty_host(flows[f].inbound))) ]_vars
    /\ [](\A f \in FlowIds :
             (Matched(f) /\ BetweenHooks(f)) =>
                /\ get_all(flows[f].request.headers, "X-Original-Host")
                      = << pretty_host(flows[f].inbound) >>
                /\ get_all(flows[f].request.headers, "X-Intercepted-By")
                      = << "cyber-drill-gateway" >>)

\* A rewritten flow whose client sent its own values of both reserved headers
\* is through the response hook, and the log holds its response record with
\* the host the request came in with.
C16_Witness ==
    \E f \in FlowIds :
        /\ flows[f].phase = "done"
        /\ Matched(f)
        /\ get_all(flows[f].inbound.headers, "X-Original-Host") = << "spoofed.example" >>
        /\ get_all(flows[f].inbound.headers, "X-Intercepted-By") = << "client" >>
        /\ \E i \in 1..Len(log) :
              log[i] = ResponseRecord(f, pretty_host(flows[f].inbound))

\* ------------------------------------------------ the reach of "unknown"
\* The text of a response record whose original host is the sentinel.
IsUnknownRecord(rec) ==
    /\ rec.kind = "response"
    /\ startswith(rec.text, "[gateway-addon] response: unknown/")

\* C17: between the hooks of a flow the request hook rewrote, a request that
\* holds X-Intercepted-By with the fixed tag holds X-Original-Host too, and
\* no response record with "unknown" as its original host is ever in the log
\* for such a flow.
C17_UnknownOnlyForeign ==
    /\ \A f \in FlowIds :
          (Matched(f) /\ BetweenHooks(f) /\ CarriesTag(flows[f].request))
             => HasOriginalHost(flows[f].request)
    /\ \A i \in 1..Len(log) :
          IsUnknownRecord(log[i]) => ~Matched(log[i].flow)

\* One flow was rewritten and is through the response hook with its record
\* in the log, and the log holds an "unknown" record of another flow, one
\* the request hook left alone.
C17_Witness ==
    \E f, g \in FlowIds :
        /\ Matched(f)
        /\ flows[f].phase = "done"
        /\ \E i \in 1..Len(log) : log[i].kind = "response" /\ log[i].flow = f
        /\ ~Matched(g)
        /\ \E i \in 1..Len(log) : IsUnknownRecord(log[i]) /\ log[i].flow = g

\* ------------------------------------------ the response hook, twice over
\* This step is the second run of the response hook on flow f.
ResponseHookAgainStep(f) == flows[f].phase = "done" /\ flows'[f].phase = "again"

\* C18: a second run of the response hook on a flow raises nothing, writes
\* no log record and leaves the request and the response of the flow as the
\* first run left them.
C18_ResponseIdempotent ==
    [][ \A f \in FlowIds :
          ResponseHookAgainStep(f) =>
             /\ log' = log
             /\ flows'[f].request = flows[f].request
             /\ flows'[f].response = flows[f].response
             /\ flows'[f].raised = FALSE ]_vars

\* The response hook has run twice on a flow whose first run found the
\* marker, wrote the flow's one response record and removed both markers.
C18_Witness ==
    \E f \in FlowIds :
        /\ flows[f].phase = "again"
        /\ Matched(f)
        /\ ~HasMarker(flows[f].request)
        /\ ~HasOriginalHost(flows[f].request)
        /\ \E i \in 1..Len(log) :
              /\ log[i].kind = "response" /\ log[i].flow = f
              /\ \A j \in 1..Len(log) :
                    (log[j].kind = "response" /\ log[j].flow = f) => j = i

====
